---- MODULE Spec2Model ----
\* E3FP fingerprint generation (fingerprint/generate.py): the per-molecule
\* generator fprints_dict_from_mol with its skip-if-exists cache, the loader
\* wrapper fprints_dict_from_sdf and the batch driver run, over a file system
\* of fingerprint files.
EXTENDS Integers, Sequences, FiniteSets, TLC

\* ---------------------------------------------------------------- bounds
NumFiles   == 2   \* input files of one batch
MaxConf    == 2   \* conformers per molecule
MaxLevel   == 1   \* largest max_iters
MaxRuns    == 2   \* batch runs over the same output tree
NumWorkers == 2   \* size of the worker pool
MaxArgs    == 2   \* input paths given to run
MaxPathLevel == 11  \* largest level of an Output Location
MaxNameLen == 2   \* characters of a molecule name in an Output Location

Names    == {<<"M">>, <<"N">>}   \* values of the _Name property
Files    == 1..NumFiles
Workers  == 1..NumWorkers
Levels   == 0..MaxLevel

\* ------------------------------------------------------------ data model
\* What mol_from_sdf yields for an input file: it raises, or it returns a
\* molecule with a _Name property and an ordered list of conformers.
NoName == << >>
Unparsable == [ok |-> FALSE, name |-> NoName, nconf |-> 0]
Molecules  == [ok : {TRUE}, name : Names, nconf : 0..MaxConf]
LoadResults == {Unparsable} \cup Molecules

\* Keyword arguments of fprints_dict_from_mol that decide its control flow.
\* counts stands for the keyword arguments that are only handed on to the
\* Fingerprinter (shell_radius, counts, stereo, store_identifiers_map,
\* include_disconnected).
Configs == [max_iters : -1..MaxLevel, first : -1..MaxConf, counts : BOOLEAN,
            overwrite : BOOLEAN, save : BOOLEAN]

\* Strings are sequences of characters. The defaults of out_dir_base and
\* out_ext:
out_dir_base == <<"E", "3", "F", "P">>
out_ext      == <<".", "b", "z", "2">>

Digit(d) == <<"0", "1", "2", "3", "4", "5", "6", "7", "8", "9">>[d + 1]

\* "%d" % n
RECURSIVE Str(_)
Str(n) ==
  IF n < 0 THEN <<"-">> \o Str(-n)
  ELSE IF n < 10 THEN <<Digit(n)>>
  ELSE Str(n \div 10) \o <<Digit(n % 10)>>

\* "%s%d" % (out_dir_base, i)
DirName(i) == out_dir_base \o Str(i)

\* Mutant: no separator between the directory and the file name.
FilenameNoSlash(i, name) == DirName(i) \o name \o out_ext

\* "%s/%s%s" % (dir_name, name, out_ext)
Filename(i, name) == DirName(i) \o <<"/">> \o name \o out_ext

\* Mutant: conformers are numbered from one.
FprintNameOneBased(name, j) == name \o <<"_">> \o Str(j + 1)

\* "%s_%d" % (name, j)
FprintName(name, j) == name \o <<"_">> \o Str(j)

Paths == {Filename(i, n) : i \in Levels, n \in Names}

\* A path holds no file, or a file that is being written, or a written file
\* with the fingerprints saved into it.
Absent == [exists |-> FALSE, complete |-> FALSE, fprints |-> << >>]
Partial == [exists |-> TRUE, complete |-> FALSE, fprints |-> << >>]
Written(fprints) == [exists |-> TRUE, complete |-> TRUE, fprints |-> fprints]

\* The empty dict {} .
EmptyDict == << >>

\* Unbound local variable j (before the first iteration of the conformer loop).
Unbound == -1

\* ------------------------------------------------- the input side of run
\* The paths of the input tree: a directory d with a file a, a hidden file
\* .h and a subdirectory s that holds a file b; and a file f beside d.
InputPaths == {<<"d">>, <<"d", "/", "a">>, <<"d", "/", ".", "h">>,
               <<"d", "/", "s">>, <<"d", "/", "s", "/", "b">>, <<"f">>}

\* p is q followed by more characters.
Under(q, p) == Len(p) > Len(q) /\ SubSeq(p, 1, Len(q)) = q

\* The path up to its last "/" (the directory part), empty if there is none.
Dirname(p) ==
  LET slashes == {k \in 1..Len(p) : p[k] = "/"} IN
  IF slashes = {} THEN << >>
  ELSE SubSeq(p, 1, (CHOOSE k \in slashes : \A l \in slashes : l <= k) - 1)

\* The input trees: each path is absent, a file or a directory, and whatever
\* exists lies in a directory.
Trees ==
  {t \in [InputPaths -> {"none", "file", "dir"}] :
     /\ t[<<"d", "/", "a">>] # "dir" /\ t[<<"d", "/", ".", "h">>] # "dir"
     /\ t[<<"d", "/", "s", "/", "b">>] # "dir" /\ t[<<"f">>] # "dir"
     /\ \A p \in InputPaths :
          (t[p] # "none" /\ Dirname(p) # << >>) => t[Dirname(p)] = "dir"}

NoTree == [p \in InputPaths |-> "none"]

\* The lists of input paths run may be given.
ArgLists == UNION {[1..n -> {<<"d">>, <<"d", "/", "s">>, <<"f">>}] : n \in 1..MaxArgs}

\* os.path.isdir(path)
isdir(t, path) == path \in DOMAIN t /\ t[path] = "dir"

\* Mutant: the pattern also matches the entries whose name starts with a dot.
globWithHidden(t, dir) ==
  {p \in DOMAIN t :
     /\ t[p] # "none"
     /\ Under(dir \o <<"/">>, p)
     /\ \A k \in (Len(dir) + 2)..Len(p) : p[k] # "/"}

\* glob("%s/*" % dir): the existing paths dir/<entry>, where <entry> holds
\* no "/" and does not start with a dot; files and directories alike.
glob(t, dir) ==
  {p \in DOMAIN t :
     /\ t[p] # "none"
     /\ Under(dir \o <<"/">>, p)
     /\ \A k \in (Len(dir) + 2)..Len(p) : p[k] # "/"
     /\ p[Len(dir) + 2] # "."}

\* The lists that hold each element of S once (glob returns its matches in
\* an order the operating system decides).
ListsOf(S) ==
  {q \in [1..Cardinality(S) -> S] : {q[k] : k \in 1..Cardinality(S)} = S}

\* ------------------------------------------- Output Locations on their own
PathLevels == 0..MaxPathLevel
PathChars == {"M", "1", "/"}
PathNames == UNION {[1..n -> PathChars] : n \in 1..MaxNameLen}

VARIABLES
  sdf_files,      \* the input paths run was given
  tree,           \* the input tree
  used,           \* (level, name) pairs whose Output Location is asked for
  located,        \* the Output Locations computed for them
  cfg,            \* fp_kwargs of the batch
  mols,           \* what each input file loads to
  num_proc,       \* workers of the pool in use
  runNo,          \* number of the current batch run
  data_iterator,  \* input files not yet handed to a worker
  st,             \* per worker: position and locals of its call
  fs,             \* path -> file
  dirs,           \* existing output directories
  results,        \* per input file: outcome of its call in this run
  prevResults,    \* outcomes of the previous run
  prevFs          \* the files as the previous run left them

vars == <<sdf_files, tree, used, located, cfg, mols, num_proc, runNo,
          data_iterator, st, fs, dirs, results, prevResults, prevFs>>

\* What a per-molecule call neither reads nor writes.
outside == <<sdf_files, tree, used, located>>

\* No Fingerprinter constructed yet.
NoEngine == [level |-> 0, counts |-> FALSE, conf |-> Unbound]

\* The outcome of a call: what it returned (kind, val), what it logged last
\* (log), and a record of what it did: the worker that ran it (by), the
\* number of Fingerprinter.run calls (calls), the paths it opened for writing
\* (wrote), the files it wrote to the end (saved), the levels whose file
\* existed when the call started (pre) and, for "Error saving fingerprints
\* for <name> to <filenames[i]>", the i of the path it names.
NoResult == [kind |-> "none", val |-> EmptyDict, log |-> "none", by |-> 0,
             calls |-> 0, wrote |-> {}, saved |-> {}, pre |-> {}, i |-> 0]

Idle == [pc |-> "idle", file |-> 0, name |-> NoName, nconf |-> 0,
         i |-> 0, j |-> Unbound, filenames |-> << >>,
         all_files_exist |-> TRUE, fprints_dict |-> EmptyDict,
         fingerprinter |-> NoEngine, k |-> 0,
         calls |-> 0, wrote |-> {}, saved |-> {}, pre |-> {}]

\* ------------------------------------------------------------- helpers
\* Mutant: the existence test only counts a file that was written to the end.
isfileComplete(f, path) == f[path].complete

\* os.path.isfile(filename)
isfile(f, path) == f[path].exists

\* xrange(max_iters + 1)
xrange(n) == 0..(n - 1)

\* fprints_dict.setdefault(i, []).append(fprint)
SetdefaultAppend(d, i, fprint) ==
  IF i \in DOMAIN d THEN [d EXCEPT ![i] = Append(@, fprint)]
  ELSE [x \in (DOMAIN d) \cup {i} |-> IF x = i THEN <<fprint>> ELSE d[x]]

\* Mutant: the items are taken in decreasing order of level.
SortedKeyDescending(d, k) ==
  CHOOSE x \in DOMAIN d : Cardinality({y \in DOMAIN d : y > x}) = k

\* sorted(fprints_dict.items()): the k-th smallest key (k from 0)
SortedKey(d, k) ==
  CHOOSE x \in DOMAIN d : Cardinality({y \in DOMAIN d : y < x}) = k

\* The fingerprint get_fingerprint_at_level(i) returns for the conformer the
\* engine last ran, with the name fprints_dict_from_mol then assigns to it.
Fprint(engine, i, fname) ==
  [name |-> fname, conf |-> engine.conf, level |-> i, counts |-> engine.counts]

\* The call of worker w ends after `calls` engine runs: its outcome is
\* recorded and w is free again.
ReturnAfter(w, kind, val, log, calls) ==
  /\ results' = [results EXCEPT ![st[w].file] =
                   [kind |-> kind, val |-> val, log |-> log, by |-> w,
                    calls |-> calls, wrote |-> st[w].wrote,
                    saved |-> st[w].saved, pre |-> st[w].pre,
                    i |-> IF log = "error_saving" THEN st[w].i ELSE 0]]
  /\ st' = [st EXCEPT ![w] = Idle]

Return(w, kind, val, log) == ReturnAfter(w, kind, val, log, st[w].calls)

\* ----------------------------------------------------------------- Init
\* The first batch run starts over an empty output tree: every input file
\* is still to be handed out and every worker is free.
Start ==
  /\ sdf_files = [k \in 1..NumFiles |-> k]
  /\ tree = NoTree
  /\ used = << >>
  /\ located = << >>
  /\ runNo = 1
  /\ data_iterator = sdf_files
  /\ st = [w \in Workers |-> Idle]
  /\ fs = [p \in Paths |-> Absent]
  /\ dirs = {}
  /\ results = [f \in Files |-> NoResult]
  /\ prevResults = [f \in Files |-> NoResult]
  /\ prevFs = [p \in Paths |-> Absent]

\* Parallel mode off: one worker processes the files in turn (bit-based
\* fingerprints, the default).
Init ==
  /\ cfg \in {c \in Configs : ~c.counts}
  /\ mols \in [Files -> LoadResults]
  /\ num_proc = 1
  /\ Start

\* A pool of NumWorkers workers, saving every level of every conformer of
\* single-conformer molecules.
InitPar ==
  /\ cfg \in {c \in Configs : /\ c.save /\ ~c.overwrite /\ ~c.counts
                               /\ c.first = -1 /\ c.max_iters = MaxLevel}
  /\ mols \in [Files -> {m \in LoadResults : m.ok => m.nconf = 1}]
  /\ num_proc = NumWorkers
  /\ Start

\* -------------------------------------------------------------- actions
\* para.run hands the next input file to a free worker, which calls
\* fprints_dict_from_sdf(sdf_file, **fp_kwargs).
Dispatch(w) ==
  /\ w <= num_proc
  /\ st[w].pc = "idle"
  /\ data_iterator # << >>
  /\ st' = [st EXCEPT ![w] = [Idle EXCEPT !.pc = "load",
                                          !.file = Head(data_iterator)]]
  /\ data_iterator' = Tail(data_iterator)
  /\ UNCHANGED <<outside, cfg, mols, num_proc, runNo, fs, dirs, results,
                 prevResults, prevFs>>

\* mol = mol_from_sdf(sdf_file) succeeded; fprints_dict_from_mol starts:
\* name = mol.GetProp("_Name"), then the cache check if save.
LoadOk(w) ==
  /\ st[w].pc = "load"
  /\ mols[st[w].file].ok
  /\ LET m == mols[st[w].file] IN
     st' = [st EXCEPT ![w].name = m.name, ![w].nconf = m.nconf,
                      ![w].pc = IF cfg.save THEN "check" ELSE "construct",
                      ![w].i = 0, ![w].filenames = << >>,
                      ![w].all_files_exist = TRUE,
                      ![w].pre = {i \in 0..cfg.max_iters :
                                    fs[Filename(i, m.name)].exists}]
  /\ UNCHANGED <<outside, cfg, mols, num_proc, runNo, data_iterator, fs, dirs,
                 results, prevResults, prevFs>>

\* Mutant: no try around mol_from_sdf; the exception leaves the call and
\* ends the iteration over the remaining input files.
LoadFailEscapes(w) ==
  /\ st[w].pc = "load"
  /\ ~mols[st[w].file].ok
  /\ Return(w, "raised", EmptyDict, "none")
  /\ data_iterator' = << >>
  /\ UNCHANGED <<outside, cfg, mols, num_proc, runNo, fs, dirs, prevResults, prevFs>>

\* mol_from_sdf raised: logged, fprints_dict_from_sdf returns False.
LoadFail(w) ==
  /\ st[w].pc = "load"
  /\ ~mols[st[w].file].ok
  /\ Return(w, "False", EmptyDict, "error_load")
  /\ UNCHANGED <<outside, cfg, mols, num_proc, runNo, data_iterator, fs, dirs,
                 prevResults, prevFs>>

\* One iteration of the loop over xrange(max_iters + 1): touch_dir, the
\* filename, os.path.isfile.
CacheCheckStep(w) ==
  /\ st[w].pc = "check"
  /\ st[w].i \in xrange(cfg.max_iters + 1)
  /\ LET i == st[w].i
         filename == Filename(i, st[w].name) IN
     /\ dirs' = dirs \cup {DirName(i)}
     /\ st' = [st EXCEPT ![w].filenames = Append(@, filename),
                         ![w].all_files_exist = @ /\ isfile(fs, filename),
                         ![w].i = i + 1]
  /\ UNCHANGED <<outside, cfg, mols, num_proc, runNo, data_iterator, fs, results,
                 prevResults, prevFs>>

\* touch_dir(dir_name) raises (the directory cannot be created); nothing
\* catches it in fprints_dict_from_mol or fprints_dict_from_sdf.
TouchDirFail(w) ==
  /\ st[w].pc = "check"
  /\ st[w].i \in xrange(cfg.max_iters + 1)
  /\ DirName(st[w].i) \notin dirs
  /\ Return(w, "raised", EmptyDict, "none")
  /\ UNCHANGED <<outside, cfg, mols, num_proc, runNo, data_iterator, fs, dirs,
                 prevResults, prevFs>>

\* Mutant: existing files are taken as valid only for bit-based fingerprints.
SkipsBitBasedOnly(w) == st[w].all_files_exist /\ ~cfg.overwrite /\ ~cfg.counts

\* Mutant: the test of overwrite is inverted.
SkipsInverted(w) == st[w].all_files_exist /\ cfg.overwrite

\* Mutant: overwrite is not consulted.
SkipsIgnoringOverwrite(w) == st[w].all_files_exist

\* all_files_exist and not overwrite
Skips(w) == st[w].all_files_exist /\ ~cfg.overwrite

\* if all_files_exist and not overwrite: warning, return {}
CacheSkip(w) ==
  /\ st[w].pc = "check"
  /\ st[w].i \notin xrange(cfg.max_iters + 1)
  /\ Skips(w)
  /\ Return(w, "dict", EmptyDict, "skip")
  /\ UNCHANGED <<outside, cfg, mols, num_proc, runNo, data_iterator, fs, dirs,
                 prevResults, prevFs>>

\* The cache check does not skip: on to the Fingerprinter.
CacheMiss(w) ==
  /\ st[w].pc = "check"
  /\ st[w].i \notin xrange(cfg.max_iters + 1)
  /\ ~Skips(w)
  /\ st' = [st EXCEPT ![w].pc = "construct"]
  /\ UNCHANGED <<outside, cfg, mols, num_proc, runNo, data_iterator, fs, dirs,
                 results, prevResults, prevFs>>

\* fingerprinter = Fingerprinter(level=max_iters, ...); fprints_dict = {}
\* (max_iters is an int here, run passes int(max_iterations), so the
\* "max_iters is None" branch is not taken).
Construct(w) ==
  /\ st[w].pc = "construct"
  /\ st' = [st EXCEPT ![w].pc = "conf",
                      ![w].fingerprinter = [level |-> cfg.max_iters,
                                            counts |-> cfg.counts,
                                            conf |-> Unbound],
                      ![w].fprints_dict = EmptyDict,
                      ![w].j = Unbound, ![w].k = 0]
  /\ UNCHANGED <<outside, cfg, mols, num_proc, runNo, data_iterator, fs, dirs,
                 results, prevResults, prevFs>>

\* The next element of enumerate(mol.GetConformers()), if any.
HasNextConf(w) == st[w].k < st[w].nconf

\* Mutant: j is compared with first only after the conformer was run.
RunsConfBreakLate(w) ==
  HasNextConf(w) /\ (st[w].k = 0 \/ st[w].k - 1 # cfg.first)

\* The body of the conformer loop is entered and does not break.
RunsConf(w) == HasNextConf(w) /\ st[w].k # cfg.first

\* After the inner loop over the levels: the position the call is at.
AfterLevel(i) == IF i + 1 \in xrange(cfg.max_iters + 1) THEN "level" ELSE "conf"

\* fingerprinter.run(conf=conf) for conformer j = k
EngineRun(w) ==
  /\ st[w].pc = "conf"
  /\ RunsConf(w)
  /\ st' = [st EXCEPT ![w].j = st[w].k, ![w].k = st[w].k + 1,
                      ![w].fingerprinter.conf = st[w].k,
                      ![w].calls = @ + 1, ![w].i = 0,
                      ![w].pc = AfterLevel(-1)]
  /\ UNCHANGED <<outside, cfg, mols, num_proc, runNo, data_iterator, fs, dirs,
                 results, prevResults, prevFs>>

\* Mutant: the levels collected so far are saved before the error return.
EngineRunFailSaves(w) ==
  /\ st[w].pc = "conf"
  /\ RunsConf(w)
  /\ LET d == st[w].fprints_dict
         paths == IF cfg.save THEN {Filename(i, st[w].name) : i \in DOMAIN d}
                  ELSE {} IN
     /\ fs' = [p \in Paths |->
                IF p \in paths
                THEN Written(d[CHOOSE i \in DOMAIN d : Filename(i, st[w].name) = p])
                ELSE fs[p]]
     /\ results' = [results EXCEPT ![st[w].file] =
          [kind |-> "dict", val |-> EmptyDict, log |-> "error_fingerprinting",
           by |-> w, calls |-> st[w].calls + 1, wrote |-> paths,
           saved |-> {<<q, fs'[q].fprints>> : q \in paths},
           pre |-> st[w].pre, i |-> 0]]
     /\ st' = [st EXCEPT ![w] = Idle]
  /\ UNCHANGED <<outside, cfg, mols, num_proc, runNo, data_iterator, dirs,
                 prevResults, prevFs>>

\* fingerprinter.run raises: except Exception: error logged, return {}
EngineRunFail(w) ==
  /\ st[w].pc = "conf"
  /\ RunsConf(w)
  /\ ReturnAfter(w, "dict", EmptyDict, "error_fingerprinting",
                 st[w].calls + 1)
  /\ UNCHANGED <<outside, cfg, mols, num_proc, runNo, data_iterator, fs, dirs,
                 prevResults, prevFs>>

\* Mutant: the engine is run again for the conformer before each level is
\* queried.
GetLevelRuns(w) ==
  /\ st[w].pc = "level"
  /\ LET i == st[w].i IN
     st' = [st EXCEPT ![w].fprints_dict =
                         SetdefaultAppend(@, i,
                           Fprint(st[w].fingerprinter, i,
                                  FprintName(st[w].name, st[w].j))),
                      ![w].calls = @ + 1,
                      ![w].i = i + 1,
                      ![w].pc = AfterLevel(i)]
  /\ UNCHANGED <<outside, cfg, mols, num_proc, runNo, data_iterator, fs, dirs,
                 results, prevResults, prevFs>>

\* fprint = fingerprinter.get_fingerprint_at_level(i); fprint.name = ...;
\* fprints_dict.setdefault(i, []).append(fprint)
GetLevel(w) ==
  /\ st[w].pc = "level"
  /\ LET i == st[w].i IN
     st' = [st EXCEPT ![w].fprints_dict =
                         SetdefaultAppend(@, i,
                           Fprint(st[w].fingerprinter, i,
                                  FprintName(st[w].name, st[w].j))),
                      ![w].i = i + 1,
                      ![w].pc = AfterLevel(i)]
  /\ UNCHANGED <<outside, cfg, mols, num_proc, runNo, data_iterator, fs, dirs,
                 results, prevResults, prevFs>>

\* get_fingerprint_at_level raises: except Exception: return {}
GetLevelFail(w) ==
  /\ st[w].pc = "level"
  /\ Return(w, "dict", EmptyDict, "error_fingerprinting")
  /\ UNCHANGED <<outside, cfg, mols, num_proc, runNo, data_iterator, fs, dirs,
                 prevResults, prevFs>>

\* The conformer loop ends (exhausted, or j == first: break); then
\* logging.info("Generated %d ..." % (j, name)) reads j.
LoopExit(w) ==
  /\ st[w].pc = "conf"
  /\ ~RunsConf(w)
  /\ LET j == IF HasNextConf(w) THEN st[w].k ELSE st[w].j IN
     IF j = Unbound
     THEN \* NameError, caught by except Exception
          Return(w, "dict", EmptyDict, "error_fingerprinting")
     ELSE IF cfg.save /\ DOMAIN st[w].fprints_dict # {}
     THEN /\ st' = [st EXCEPT ![w].pc = "save", ![w].j = j, ![w].k = 0,
                              ![w].i = SortedKey(st[w].fprints_dict, 0)]
          /\ UNCHANGED results
     ELSE Return(w, "dict", st[w].fprints_dict,
                 IF cfg.save THEN "saved" ELSE "generated")
  /\ UNCHANGED <<outside, cfg, mols, num_proc, runNo, data_iterator, fs, dirs,
                 prevResults, prevFs>>

\* fp.savez(filenames[i], *fprints) opens the file of the next level.
SaveBegin(w) ==
  /\ st[w].pc = "save"
  /\ LET path == st[w].filenames[st[w].i + 1] IN
     /\ fs' = [fs EXCEPT ![path] = Partial]
     /\ st' = [st EXCEPT ![w].pc = "writing",
                         ![w].wrote = @ \cup {path}]
  /\ UNCHANGED <<outside, cfg, mols, num_proc, runNo, data_iterator, dirs, results,
                 prevResults, prevFs>>

\* fp.savez raises before it has created the file.
SaveOpenFail(w) ==
  /\ st[w].pc = "save"
  /\ Return(w, "dict", EmptyDict, "error_saving")
  /\ UNCHANGED <<outside, cfg, mols, num_proc, runNo, data_iterator, fs, dirs,
                 prevResults, prevFs>>

\* fp.savez returns: the file of level i is written; next item, or the
\* call returns fprints_dict.
SaveEnd(w) ==
  /\ st[w].pc = "writing"
  /\ LET i == st[w].i
         path == st[w].filenames[i + 1]
         fprints == st[w].fprints_dict[i]
         saved == st[w].saved \cup {<<path, fprints>>} IN
     /\ fs' = [fs EXCEPT ![path] = Written(fprints)]
     /\ IF st[w].k + 1 < Cardinality(DOMAIN st[w].fprints_dict)
        THEN /\ st' = [st EXCEPT ![w].pc = "save", ![w].k = @ + 1,
                                 ![w].saved = saved,
                                 ![w].i = SortedKey(st[w].fprints_dict,
                                                    st[w].k + 1)]
             /\ UNCHANGED results
        ELSE /\ results' = [results EXCEPT ![st[w].file] =
                  [kind |-> "dict", val |-> st[w].fprints_dict,
                   log |-> "saved", by |-> w, calls |-> st[w].calls,
                   wrote |-> st[w].wrote, saved |-> saved,
                   pre |-> st[w].pre, i |-> 0]]
             /\ st' = [st EXCEPT ![w] = Idle]
  /\ UNCHANGED <<outside, cfg, mols, num_proc, runNo, data_iterator, dirs,
                 prevResults, prevFs>>

\* fp.savez raises while writing: the file stays as far as it got.
SaveWriteFail(w) ==
  /\ st[w].pc = "writing"
  /\ Return(w, "dict", EmptyDict, "error_saving")
  /\ UNCHANGED <<outside, cfg, mols, num_proc, runNo, data_iterator, fs, dirs,
                 prevResults, prevFs>>

\* The batch has ended: every input file was handed out and every call is over.
BatchDone == data_iterator = << >> /\ \A w \in Workers : st[w].pc = "idle"

\* run is invoked again with the same arguments over the same output tree.
Rerun ==
  /\ BatchDone
  /\ runNo < MaxRuns
  /\ runNo' = runNo + 1
  /\ data_iterator' = sdf_files
  /\ prevResults' = results
  /\ prevFs' = fs
  /\ results' = [f \in Files |-> NoResult]
  /\ UNCHANGED <<outside, cfg, mols, num_proc, st, fs, dirs>>

Next ==
  \/ \E w \in Workers :
       \/ Dispatch(w)
       \/ LoadOk(w)
       \/ LoadFail(w)
       \/ CacheCheckStep(w)
       \/ TouchDirFail(w)
       \/ CacheSkip(w)
       \/ CacheMiss(w)
       \/ Construct(w)
       \/ EngineRun(w)
       \/ EngineRunFail(w)
       \/ GetLevel(w)
       \/ GetLevelFail(w)
       \/ LoopExit(w)
       \/ SaveBegin(w)
       \/ SaveOpenFail(w)
       \/ SaveEnd(w)
       \/ SaveWriteFail(w)
  \/ Rerun

Spec == Init /\ [][Next]_vars

SpecPar == InitPar /\ [][Next]_vars

\* ------------------------------------ runs with a changed configuration
\* The defaults of first and counts, parallel mode off.
InitCfg ==
  /\ cfg \in {c \in Configs : c.first = -1 /\ ~c.counts}
  /\ mols \in [Files -> LoadResults]
  /\ num_proc = 1
  /\ Start

\* run is invoked again over the same output tree with other values of
\* first and of the arguments handed on to the Fingerprinter.
Reconfigure ==
  /\ BatchDone
  /\ runNo < MaxRuns
  /\ \E c \in Configs :
       /\ c # cfg
       /\ c.max_iters = cfg.max_iters
       /\ c.overwrite = cfg.overwrite /\ c.save = cfg.save
       /\ cfg' = c
  /\ runNo' = runNo + 1
  /\ data_iterator' = sdf_files
  /\ prevResults' = results
  /\ prevFs' = fs
  /\ results' = [f \in Files |-> NoResult]
  /\ UNCHANGED <<outside, mols, num_proc, st, fs, dirs>>

NextCfg == Next \/ Reconfigure

SpecCfg == InitCfg /\ [][NextCfg]_vars

\* ------------------------------------------- run resolves its input paths
\* run has been called with a list of input paths and has not yet looked at
\* them; no per-molecule call has started.
InitRun ==
  /\ sdf_files \in ArgLists
  /\ tree \in Trees
  /\ used = << >>
  /\ located = << >>
  /\ cfg = [max_iters |-> -1, first |-> -1, counts |-> FALSE,
            overwrite |-> FALSE, save |-> TRUE]
  /\ mols = [f \in Files |-> Unparsable]
  /\ num_proc = 1
  /\ runNo = 0
  /\ data_iterator = << >>
  /\ st = [w \in Workers |-> Idle]
  /\ fs = [p \in Paths |-> Absent]
  /\ dirs = {}
  /\ results = [f \in Files |-> NoResult]
  /\ prevResults = [f \in Files |-> NoResult]
  /\ prevFs = [p \in Paths |-> Absent]

\* if len(sdf_files) == 1 and os.path.isdir(sdf_files[0]):
\*     sdf_files = glob("%s/*" % sdf_files[0])
\* data_iterator = make_data_iterator(sdf_files)
GetSdfFiles ==
  /\ runNo = 0
  /\ IF Len(sdf_files) = 1 /\ isdir(tree, sdf_files[1])
     THEN data_iterator' \in ListsOf(glob(tree, sdf_files[1]))
     ELSE data_iterator' = sdf_files
  /\ runNo' = 1
  /\ UNCHANGED <<outside, cfg, mols, num_proc, st, fs, dirs, results,
                 prevResults, prevFs>>

SpecRun == InitRun /\ [][GetSdfFiles]_vars

\* ------------------------------------- Output Locations of two pairs
\* Two different (level, name) pairs of one run, with the defaults of
\* out_dir_base and out_ext.
InitPath ==
  /\ used \in {u \in (PathLevels \X PathNames) \X (PathLevels \X PathNames) :
                 u[1] # u[2]}
  /\ located = << >>
  /\ sdf_files = << >>
  /\ tree = NoTree
  /\ cfg = [max_iters |-> MaxLevel, first |-> -1, counts |-> FALSE,
            overwrite |-> FALSE, save |-> TRUE]
  /\ mols = [f \in Files |-> Unparsable]
  /\ num_proc = 1
  /\ runNo = 1
  /\ data_iterator = << >>
  /\ st = [w \in Workers |-> Idle]
  /\ fs = [p \in Paths |-> Absent]
  /\ dirs = {}
  /\ results = [f \in Files |-> NoResult]
  /\ prevResults = [f \in Files |-> NoResult]
  /\ prevFs = [p \in Paths |-> Absent]

\* filename = "%s/%s%s" % (dir_name, name, out_ext) for the next pair
Locate ==
  /\ Len(located) < Len(used)
  /\ LET pair == used[Len(located) + 1] IN
     located' = Append(located, Filename(pair[1], pair[2]))
  /\ UNCHANGED <<sdf_files, tree, used, cfg, mols, num_proc, runNo,
                 data_iterator, st, fs, dirs, results, prevResults, prevFs>>

SpecPath == InitPath /\ [][Locate]_vars

\* ------------------------------------------------------------- claims
AllLevels == 0..cfg.max_iters

\* The Output Locations of a molecule name, one per level 0..max_iters.
LevelPaths(name) == {Filename(i, name) : i \in AllLevels}

\* The input files whose call of this run is over.
Done == {f \in Files : results[f].kind # "none"}

\* The paths a call wrote to the end.
SavedPaths(r) == {p[1] : p \in r.saved}

Min(a, b) == IF a < b THEN a ELSE b

\* The workers inside fprints_dict_from_mol.
InMol == {w \in Workers : st[w].pc \notin {"idle", "load"}}

\* C1: with save enabled and overwrite false, a call that starts with the
\* file of every level 0..max_iters present returns from the cache check:
\* no Fingerprinter.run call, no file opened for writing, outcome "skip".
C1_SkipWhenAllExist ==
  (cfg.save /\ ~cfg.overwrite) =>
    /\ \A f \in Done :
         (mols[f].ok /\ results[f].pre = AllLevels) =>
           /\ results[f].log = "skip"
           /\ results[f].calls = 0
           /\ results[f].wrote = {}
    /\ \A w \in InMol :
         st[w].pre = AllLevels =>
           st[w].pc = "check" /\ st[w].calls = 0 /\ st[w].wrote = {}

\* A call is skipped with the files of two levels present.
C1_Witness ==
  \E f \in Done :
    /\ cfg.save /\ ~cfg.overwrite /\ cfg.max_iters >= 1
    /\ results[f].pre = AllLevels
    /\ results[f].log = "skip"

\* Every input file loads to a molecule with a conformer, every conformer is
\* to be fingerprinted, and no call of this run or the previous one raised.
PlainBatch ==
  /\ cfg.first = -1
  /\ \A f \in Files :
       /\ mols[f].ok /\ mols[f].nconf >= 1
       /\ results[f].kind # "raised" /\ prevResults[f].kind # "raised"

C3_Unbounded ==
  \A f \in Done :
    (mols[f].ok /\ mols[f].nconf >= 1 /\ cfg.first # 0
       /\ cfg.max_iters = -1) =>
      /\ results[f].log # "skip"
      /\ results[f].calls >= 1
      /\ results[f].log \in {"saved", "generated"} =>
           DOMAIN results[f].val # {}

\* The number of conformers the claim C4 expects to be fingerprinted.
Expected(f) ==
  IF cfg.first < 0 THEN mols[f].nconf ELSE Min(mols[f].nconf, cfg.first)

\* C4 as stated: a successful saving run wrote exactly the files of the
\* levels 0..max_iters, each with min(C, first) fingerprints (C when first
\* is negative).
C4_Complete ==
  \A f \in Done :
    (cfg.save /\ results[f].log = "saved") =>
      /\ SavedPaths(results[f]) = LevelPaths(mols[f].name)
      /\ \A p \in results[f].saved : Len(p[2]) = Expected(f)

\* C5: a call that ends on the fingerprinting-error path opened no file for
\* writing and wrote none; no call has opened a file before its conformer
\* loop is over. A step of a call that ends so leaves every file as it was.
C5_Inv ==
  /\ \A f \in Done :
       results[f].log = "error_fingerprinting" =>
         results[f].wrote = {} /\ results[f].saved = {}
  /\ \A w \in Workers :
       st[w].pc \in {"check", "construct", "conf", "level"} =>
         st[w].wrote = {} /\ st[w].saved = {}

C5_Step ==
  \A f \in Files :
    (results'[f] # results[f] /\ results'[f].log = "error_fingerprinting")
      => fs' = fs

C5_AllOrNothing == []C5_Inv /\ [][C5_Step]_vars

\* The engine failed on the second conformer of a molecule that had level
\* files before the call.
C5_Witness ==
  \E f \in Done :
    /\ cfg.save
    /\ results[f].log = "error_fingerprinting"
    /\ results[f].calls = 2
    /\ results[f].pre # {}

\* C6: a call that ends on the saving-error path at level k returns the
\* failure outcome ({} with the error logged), opened no file of a level
\* above k and wrote to the end exactly the files of the levels below k;
\* the step that returns changes no file, and the files of the levels below
\* k are on disk then (with one worker: complete, as the call wrote them).
C6_Inv ==
  \A f \in Done :
    results[f].log = "error_saving" =>
      LET k == results[f].i
          name == mols[f].name IN
      /\ results[f].kind = "dict" /\ results[f].val = EmptyDict
      /\ results[f].wrote \subseteq {Filename(l, name) : l \in 0..k}
      /\ SavedPaths(results[f]) = {Filename(l, name) : l \in 0..(k - 1)}

C6_Step ==
  \A f \in Files :
    (results'[f] # results[f] /\ results'[f].log = "error_saving") =>
      /\ fs' = fs
      /\ \A l \in 0..(results'[f].i - 1) :
           LET p == Filename(l, mols[f].name) IN
           /\ fs'[p].exists
           /\ num_proc = 1 =>
                fs'[p].complete /\ <<p, fs'[p].fprints>> \in results'[f].saved

C6_PersistenceFailure == []C6_Inv /\ [][C6_Step]_vars

\* The write of level 1 failed after level 0 was written.
C6_Witness ==
  \E f \in Done :
    /\ results[f].log = "error_saving"
    /\ results[f].i = 1
    /\ SavedPaths(results[f]) = {Filename(0, mols[f].name)}
    /\ fs[Filename(0, mols[f].name)].complete

\* The previous run left the file of every level of this name written to
\* the end.
CompleteBefore(name) == \A p \in LevelPaths(name) : prevFs[p].complete

C8_Step ==
  \A w \in Workers :
    (st[w].pc = "check" /\ st'[w].pc = "idle"
       /\ results'[st[w].file].log = "skip") =>
      ~\E v \in Workers \ {w} :
          st[v].pc = "writing" /\ st[v].name = st[w].name

C8_NoSkipDuringWrite == [][C8_Step]_vars

\* The paths worker w has opened for writing in this batch run.
WrittenBy(w) ==
  st[w].wrote \cup UNION {results[f].wrote : f \in {g \in Done : results[g].by = w}}

\* C9 as stated: in one batch run no Output Location is written by two
\* workers.
C9_SingleWriter ==
  \A w, v \in Workers : w # v => WrittenBy(w) \cap WrittenBy(v) = {}

\* C10: a file that fails to load gets the outcome False with no engine
\* call and no file opened; when the batch has ended every input file has
\* an outcome, the outcomes False are exactly those of the failing files,
\* and a loadable file whose call fingerprinted a conformer and succeeded
\* has written all its level files.
C10_BatchIsolation ==
  /\ \A f \in Done :
       ~mols[f].ok =>
         /\ results[f].kind = "False" /\ results[f].log = "error_load"
         /\ results[f].calls = 0 /\ results[f].wrote = {}
  /\ BatchDone =>
       /\ Done = Files
       /\ {f \in Files : results[f].kind = "False"} = {f \in Files : ~mols[f].ok}
       /\ \A f \in Files :
            (mols[f].ok /\ cfg.save /\ results[f].log = "saved"
               /\ results[f].calls >= 1) =>
              SavedPaths(results[f]) = LevelPaths(mols[f].name)

\* The first file failed to load and a later file was saved at two levels.
C10_Witness ==
  /\ BatchDone
  /\ \E f, g \in Files :
       /\ f < g
       /\ ~mols[f].ok /\ results[f].kind = "False"
       /\ cfg.max_iters >= 1
       /\ results[g].log = "saved"
       /\ SavedPaths(results[g]) = LevelPaths(mols[g].name)

\* The outcomes of the failure paths that return a value.
FailureLogs == {"error_fingerprinting", "error_saving"}

\* C11 as stated: every error raised while one molecule is processed is
\* turned into a returned outcome; no exception leaves the per-molecule call.
C11_Contained ==
  \A f \in Done : results[f].kind # "raised"

\* C12 as stated: the value returned for a molecule skipped by the cache
\* check differs from the value returned for a fingerprinting failure and
\* from the value returned for a persistence failure.
C12_Distinguished ==
  \A f, g \in Files :
    \A r \in {results[f], prevResults[f]}, q \in {results[g], prevResults[g]} :
      (r.log = "skip" /\ q.log \in FailureLogs) =>
        <<r.kind, r.val>> # <<q.kind, q.val>>

\* The sequence holds one fingerprint per conformer ordinal 0, 1, ... in
\* this order, each of level i and named "<name>_<ordinal>".
NamedInOrder(name, i, fprints) ==
  \A k \in 1..Len(fprints) :
    /\ fprints[k].conf = k - 1
    /\ fprints[k].level = i
    /\ fprints[k].name = name \o <<"_">> \o Str(k - 1)

\* C13: in the collection a call is building, in the collection it returns
\* and in every file it saved, the sequence of each level is ordered by
\* conformer ordinal and the fingerprint of conformer j of molecule M is
\* named "M_j", for bit-based and count-based fingerprints alike.
C13_NameDeterminism ==
  /\ \A w \in InMol :
       \A i \in DOMAIN st[w].fprints_dict :
         NamedInOrder(st[w].name, i, st[w].fprints_dict[i])
  /\ \A f \in Done :
       /\ \A i \in DOMAIN results[f].val :
            NamedInOrder(mols[f].name, i, results[f].val[i])
       /\ \A i \in AllLevels :
            \A e \in results[f].saved :
              e[1] = Filename(i, mols[f].name) =>
                NamedInOrder(mols[f].name, i, e[2])

\* A call with count-based fingerprints saved two conformers of molecule M
\* at two levels; the second fingerprint of level 1 is named "M_1".
C13_Witness ==
  \E f \in Done :
    /\ cfg.counts /\ cfg.max_iters >= 1
    /\ results[f].log = "saved"
    /\ DOMAIN results[f].val = {0, 1}
    /\ Len(results[f].val[1]) = 2
    /\ results[f].val[1][2].counts
    /\ results[f].val[1][2].name = <<"M", "_", "1">>
    /\ results[f].val[0][1].name = <<"M", "_", "0">>

\* C14: with out_dir_base and out_ext fixed, the Output Locations computed
\* for two different (level, molecule name) pairs are different paths.
C14_Injective ==
  Len(located) = 2 => located[1] # located[2]

\* The Output Locations of level 1 for the name "1M" and of level 11 for the
\* name "M" have been computed.
C14_Witness ==
  /\ Len(located) = 2
  /\ used = << <<1, <<"1", "M">> >>, <<11, <<"M">> >> >>
  /\ located[2] = <<"E", "3", "F", "P", "1", "1", "/", "M", ".", "b", "z", "2">>

\* The elements of a list.
Elements(q) == {q[k] : k \in 1..Len(q)}

\* The name of a path inside its directory.
Basename(p) == SubSeq(p, Len(Dirname(p)) + (IF Dirname(p) = << >> THEN 1 ELSE 2), Len(p))

\* run was given exactly one path and it is a directory.
SingleDir == Len(sdf_files) = 1 /\ isdir(tree, sdf_files[1])

\* What a directory contains: its entries, and the files among them.
EntriesIn(dir) == {p \in InputPaths : tree[p] # "none" /\ Dirname(p) = dir}
FilesIn(dir) == {p \in EntriesIn(dir) : tree[p] = "file"}

\* C15 as stated: for a single directory argument the effective input set
\* is exactly the files the directory contains; any other input list is
\* used unchanged.
C15_Original ==
  runNo = 1 =>
    IF SingleDir THEN Elements(data_iterator) = FilesIn(sdf_files[1])
    ELSE data_iterator = sdf_files

\* C15 amended: for a single directory argument the effective input list
\* holds, once each, the entries of the directory whose name does not start
\* with a dot, files and subdirectories alike, and no path from inside a
\* subdirectory (so exactly the N files when the directory holds only files
\* with such names); any other input list is used unchanged.
C15_Expansion ==
  runNo = 1 =>
    IF SingleDir
    THEN LET dir == sdf_files[1] IN
         /\ Elements(data_iterator) =
              {p \in EntriesIn(dir) : Head(Basename(p)) # "."}
         /\ Len(data_iterator) = Cardinality(Elements(data_iterator))
         /\ \A p \in Elements(data_iterator) : Dirname(p) = dir
         /\ (\A p \in EntriesIn(dir) :
               tree[p] = "file" /\ Head(Basename(p)) # ".") =>
              Elements(data_iterator) = FilesIn(dir)
    ELSE data_iterator = sdf_files

\* The directory d, holding a file, a hidden file and a subdirectory with a
\* file in it, was expanded to the file and the subdirectory.
C15_Witness ==
  /\ runNo = 1
  /\ sdf_files = << <<"d">> >>
  /\ tree[<<"d", "/", ".", "h">>] = "file"
  /\ tree[<<"d", "/", "s", "/", "b">>] = "file"
  /\ Elements(data_iterator) = {<<"d", "/", "a">>, <<"d", "/", "s">>}

\* The workers inside the conformer loop.
InLoop == {w \in Workers : st[w].pc \in {"conf", "level"}}

\* C16: inside the conformer loop the number of Fingerprinter.run calls
\* equals the number of conformers taken so far (never more than the
\* molecule has); while the levels of conformer j are queried the engine
\* holds conformer j, the last one run, and every level queried so far has
\* one fingerprint per run, the others one less; each collected fingerprint
\* at position k was queried while the engine held conformer k - 1. A
\* successful generation made C calls when first is negative and
\* min(C, first) otherwise.
C16_Inv ==
  /\ \A w \in InLoop :
       LET d == st[w].fprints_dict IN
       /\ st[w].calls = st[w].k
       /\ st[w].calls <= st[w].nconf
       /\ \A l \in DOMAIN d :
            \A k \in 1..Len(d[l]) : d[l][k].conf = k - 1
       /\ st[w].pc = "conf" =>
            \A l \in DOMAIN d : Len(d[l]) = st[w].calls
       /\ st[w].pc = "level" =>
            /\ st[w].calls >= 1
            /\ st[w].fingerprinter.conf = st[w].calls - 1
            /\ st[w].j = st[w].calls - 1
            /\ DOMAIN d \in {xrange(st[w].i), AllLevels}
            /\ \A l \in DOMAIN d :
                 Len(d[l]) = IF l < st[w].i THEN st[w].calls
                             ELSE st[w].calls - 1
  /\ \A f \in Done :
       results[f].log \in {"saved", "generated"} =>
         results[f].calls = Expected(f)

\* A step changes a call's number of engine runs only by running the engine
\* on the next conformer in order, from the head of the conformer loop;
\* querying a level runs nothing.
C16_Step ==
  \A w \in Workers :
    (st'[w].pc # "idle" /\ st'[w].calls # st[w].calls) =>
      /\ st[w].pc = "conf"
      /\ st'[w].calls = st[w].calls + 1
      /\ st'[w].fingerprinter.conf = st[w].calls

C16_Protocol == []C16_Inv /\ [][C16_Step]_vars

\* A molecule with two conformers was generated at two levels with first = 1:
\* one engine run, two level queries.
C16_Witness ==
  \E f \in Done :
    /\ cfg.first = 1 /\ cfg.max_iters = 1
    /\ mols[f].ok /\ mols[f].nconf = 2
    /\ results[f].log \in {"saved", "generated"}
    /\ results[f].calls = 1
    /\ DOMAIN results[f].val = {0, 1}
    /\ Len(results[f].val[1]) = 1

\* No two input files hold molecules of the same name.
DistinctNames ==
  \A f, g \in Files : (f # g /\ mols[f].ok /\ mols[g].ok) => mols[f].name # mols[g].name

\* C17 as stated (molecule names distinct): with save enabled and overwrite
\* false, a molecule whose previous run ended in a fingerprinting or a
\* persistence failure, and did not start with all its level files present,
\* is not skipped by the next run with the same configuration; a molecule
\* that is skipped has every level file written to the end.
C17_Retry ==
  (runNo >= 2 /\ cfg.save /\ ~cfg.overwrite /\ DistinctNames) =>
    \A f \in Done :
      /\ (prevResults[f].log \in FailureLogs
            /\ prevResults[f].pre # AllLevels) => results[f].log # "skip"
      /\ results[f].log = "skip" =>
           \A p \in LevelPaths(mols[f].name) : fs[p].complete

\* C18: whether a call that reaches the end of its cache check is skipped
\* is a function of save, overwrite and the existence of the files of the
\* levels 0..max_iters when it started, whatever first and the arguments
\* handed on to the Fingerprinter are; so a molecule all of whose level
\* files the previous run left in place is skipped by a run with other
\* values of them (save enabled, overwrite false), and its files stay as
\* the previous configuration produced them.
C18_CacheIgnoresConfig ==
  /\ \A f \in Done :
       (mols[f].ok /\ results[f].kind # "raised") =>
         (results[f].log = "skip" <=>
            (cfg.save /\ ~cfg.overwrite /\ results[f].pre = AllLevels))
  /\ (runNo >= 2 /\ cfg.save /\ ~cfg.overwrite) =>
       \A f \in Done :
         (mols[f].ok /\ \A p \in LevelPaths(mols[f].name) : prevFs[p].exists) =>
           /\ results[f].log = "skip"
           /\ \A p \in LevelPaths(mols[f].name) : fs[p] = prevFs[p]

\* A run asking for count-based fingerprints of the first conformer only
\* has skipped a molecule whose files hold bit-based fingerprints of two
\* conformers.
C18_Witness ==
  \E f \in Done :
    /\ runNo = 2 /\ cfg.save /\ ~cfg.overwrite /\ cfg.max_iters >= 0
    /\ cfg.counts /\ cfg.first = 1
    /\ results[f].log = "skip"
    /\ LET file == fs[Filename(0, mols[f].name)] IN
       /\ file.complete
       /\ Len(file.fprints) = 2
       /\ ~file.fprints[1].counts

\* C19 as stated: with save enabled and overwrite false, a call that starts
\* with some but not all files of the levels 0..max_iters present is not
\* skipped and, when it ends on the success path, has written the file of
\* every level 0..max_iters, those that existed included.
C19_PartialCache ==
  \A f \in Done :
    (cfg.save /\ ~cfg.overwrite /\ mols[f].ok
       /\ results[f].pre # {} /\ results[f].pre # AllLevels) =>
      /\ results[f].log # "skip"
      /\ results[f].log = "saved" =>
           SavedPaths(results[f]) = LevelPaths(mols[f].name)

\* The outcome of a call that came to the end of its conformer loop
\* without an exception of the engine.
LoopEndLogs == {"error_fingerprinting", "saved", "generated"}

\* The molecule of input file f has no conformer to process.
NoConformer(f) == mols[f].ok /\ (mols[f].nconf = 0 \/ cfg.first = 0)

\* C20: with max_iters >= 0, a call that gets past the cache check and has
\* no conformer to process (none in the molecule, or first = 0) runs the
\* engine zero times, opens no file and returns the empty collection; it
\* ends on the fingerprinting-error path when the molecule has no conformer
\* and on the success path when first = 0 stops the loop at the first
\* conformer. The next run with the same configuration, save enabled and
\* overwrite false (no other input file of the same molecule name) does not
\* skip it.
C20_NoConformer ==
  cfg.max_iters >= 0 =>
    /\ \A f \in Done :
         (NoConformer(f) /\ results[f].log \in LoopEndLogs) =>
           /\ results[f].calls = 0
           /\ results[f].wrote = {} /\ results[f].saved = {}
           /\ results[f].kind = "dict" /\ results[f].val = EmptyDict
           /\ mols[f].nconf = 0 => results[f].log = "error_fingerprinting"
           /\ mols[f].nconf >= 1 =>
                results[f].log = IF cfg.save THEN "saved" ELSE "generated"
    /\ (runNo >= 2 /\ cfg.save /\ ~cfg.overwrite /\ DistinctNames) =>
         \A f \in Done :
           (NoConformer(f) /\ prevResults[f].log \in LoopEndLogs) =>
             results[f].log # "skip"

\* With first = 0, the second run has again processed, not skipped, a
\* molecule without conformers (error path) and a molecule with one
\* (success path, nothing written).
C20_Witness ==
  \E f, g \in Done :
    /\ runNo = 2 /\ cfg.save /\ ~cfg.overwrite
    /\ cfg.max_iters >= 1 /\ cfg.first = 0
    /\ mols[f].ok /\ mols[g].ok /\ mols[f].name # mols[g].name
    /\ mols[f].nconf = 0 /\ mols[g].nconf >= 1
    /\ prevResults[f].log = "error_fingerprinting"
    /\ results[f].log = "error_fingerprinting"
    /\ prevResults[g].log = "saved" /\ results[g].log = "saved"
    /\ results[g].wrote = {} /\ results[g].val = EmptyDict

====
